---------------------------- MODULE Spec2Model ----------------------------
(***************************************************************************)
(* A model of the Loop Agent playback engine (server_render.py): command   *)
(* parsing, stop-time resolution, track resolution, session building,      *)
(* device selection, the hard-start sequence and the detached stop timer.  *)
(*                                                                         *)
(* Text is modelled as a sequence of one-character strings; an Optional    *)
(* value is << >> for None and <<v>> for a value v.  Time is an integer    *)
(* number of seconds.                                                      *)
(***************************************************************************)
EXTENDS Integers, Sequences, FiniteSets, TLC

(***************************************************************************)
(* Text helpers: str.lower, str.strip, str.startswith, int()               *)
(***************************************************************************)
None == << >>

Some(v) == <<v>>

\* Python truthiness of an Optional[str]: None and "" are both false
Truthy(opt) == opt # None /\ opt[1] # << >>

UpperLetters == <<"A","B","C","D","E","F","G","H","I","J","K","L","M",
                  "N","O","P","Q","R","S","T","U","V","W","X","Y","Z">>

LowerLetters == <<"a","b","c","d","e","f","g","h","i","j","k","l","m",
                  "n","o","p","q","r","s","t","u","v","w","x","y","z">>

Digits == <<"0","1","2","3","4","5","6","7","8","9">>

IsUpper(c) == \E i \in 1..26 : UpperLetters[i] = c

IsLower(c) == \E i \in 1..26 : LowerLetters[i] = c

IsDigit(c) == \E i \in 1..10 : Digits[i] = c

IsSpace(c) == c \in {" ", "\t"}

\* a regex word character, as \b sees it
IsWordChar(c) == IsUpper(c) \/ IsLower(c) \/ IsDigit(c) \/ c = "_"

LowerChar(c) ==
    IF IsUpper(c) THEN LowerLetters[CHOOSE i \in 1..26 : UpperLetters[i] = c]
    ELSE c

lower(s) == [i \in 1..Len(s) |-> LowerChar(s[i])]

DigitValue(c) == (CHOOSE i \in 1..10 : Digits[i] = c) - 1

RECURSIVE int(_)
int(s) == IF s = << >> THEN 0
          ELSE 10 * int(SubSeq(s, 1, Len(s) - 1)) + DigitValue(s[Len(s)])

RECURSIVE lstrip(_)
lstrip(s) == IF s # << >> /\ IsSpace(s[1]) THEN lstrip(Tail(s)) ELSE s

RECURSIVE rstrip(_)
rstrip(s) == IF s # << >> /\ IsSpace(s[Len(s)])
             THEN rstrip(SubSeq(s, 1, Len(s) - 1)) ELSE s

strip(s) == rstrip(lstrip(s))

startswith(s, p) == Len(s) >= Len(p) /\ SubSeq(s, 1, Len(p)) = p

\* whether p occurs in s at position i (1-based)
MatchAt(s, i, p) == i >= 1 /\ i + Len(p) - 1 <= Len(s)
                    /\ SubSeq(s, i, i + Len(p) - 1) = p

\* Python's  p in s
Contains(s, p) == \E i \in 1..(Len(s) + 1) : MatchAt(s, i, p)


(***************************************************************************)
(* parse_cmd: the three regular-expression scans over the command text     *)
(***************************************************************************)
Quote == "\""

\* the first position >= i holding a double quote, 0 when there is none
NextQuote(cmd, i) ==
    IF \E j \in i..Len(cmd) : cmd[j] = Quote
    THEN CHOOSE j \in i..Len(cmd) :
             cmd[j] = Quote /\ \A k \in i..(j - 1) : cmd[k] # Quote
    ELSE 0

\* re.findall(r'"([^"]+)"', cmd), scanning from position i
RECURSIVE findall_titles(_, _)
findall_titles(cmd, i) ==
    IF i > Len(cmd) THEN << >>
    ELSE IF cmd[i] # Quote THEN findall_titles(cmd, i + 1)
    ELSE LET j == NextQuote(cmd, i + 1) IN
         IF j = 0 THEN << >>
         ELSE IF j = i + 1 THEN findall_titles(cmd, i + 1)
         ELSE <<SubSeq(cmd, i + 1, j - 1)>> \o findall_titles(cmd, j + 1)

\* \b in front of a word character at position i
WordBoundary(cmd, i) == i = 1 \/ ~IsWordChar(cmd[i - 1])

\* where  \btill (.+?)  can start: keyword at i, at least one character after it
TillStarts(cmd) ==
    LET low == lower(cmd) IN
    {i \in 1..Len(cmd) : /\ WordBoundary(cmd, i)
                         /\ MatchAt(low, i, <<"t","i","l","l"," ">>)
                         /\ i + 5 <= Len(cmd)}

\* re.search(r'\btill (.+?)(?: on |$)', cmd, re.I): group 1, or None
search_till(cmd) ==
    LET starts == TillStarts(cmd)
        low == lower(cmd)
    IN  IF starts = {} THEN None
        ELSE LET i == CHOOSE x \in starts : \A y \in starts : x <= y
                 g == i + 5
                 Ends == {e \in g..Len(cmd) :
                             \/ e = Len(cmd)
                             \/ MatchAt(low, e + 1, <<" ","o","n"," ">>)}
                 e == CHOOSE x \in Ends : \A y \in Ends : x <= y
             IN  Some(SubSeq(cmd, g, e))

\* where  \bon (.+)$  can start
OnStarts(cmd) ==
    LET low == lower(cmd) IN
    {i \in 1..Len(cmd) : /\ WordBoundary(cmd, i)
                         /\ MatchAt(low, i, <<"o","n"," ">>)
                         /\ i + 3 <= Len(cmd)}

\* re.search(r'\bon (.+)$', cmd, re.I): group 1, or None
search_on(cmd) ==
    LET starts == OnStarts(cmd) IN
    IF starts = {} THEN None
    ELSE LET i == CHOOSE x \in starts : \A y \in starts : x <= y
         IN  Some(SubSeq(cmd, i + 3, Len(cmd)))

\* parse_cmd: ok = FALSE stands for the ValueError raised when no title is quoted
parse_cmd(cmd) ==
    LET titles == findall_titles(cmd, 1)
        m_till == search_till(cmd)
        m_dev  == search_on(cmd)
    IN  IF titles = << >>
        THEN [ok |-> FALSE, titles |-> << >>, until_txt |-> None, device_name |-> None]
        ELSE [ok |-> TRUE,
              titles |-> titles,
              until_txt |-> IF m_till # None THEN Some(strip(m_till[1])) ELSE None,
              device_name |-> IF m_dev # None THEN Some(strip(m_dev[1])) ELSE None]

(***************************************************************************)
(* resolve_until_today                                                     *)
(***************************************************************************)
SecondsPerMinute == 60

SecondsPerHour == 3600

SecondsPerDay == 86400

\* timedelta(minutes=q), timedelta(hours=q), in seconds
timedelta_minutes(q) == q * SecondsPerMinute

timedelta_hours(q) == q * SecondsPerHour

UnitWords == { <<"m","i","n">>, <<"m","i","n","s">>,
               <<"m","i","n","u","t","e">>, <<"m","i","n","u","t","e","s">>,
               <<"h","r">>, <<"h","o","u","r">>, <<"h","o","u","r","s">> }

\* the longest run of digits s starts with
RECURSIVE DigitPrefix(_)
DigitPrefix(s) == IF s # << >> /\ IsDigit(s[1])
                  THEN <<s[1]>> \o DigitPrefix(Tail(s)) ELSE << >>

\* re.match(r'^\s*(\d+)\s*(min|mins|minute|minutes|hr|hour|hours)?\s*$', text, re.I)
\* None when there is no match, else <<[qty, unit]>> with unit an Optional
duration_match(text) ==
    LET s    == strip(text)
        d    == DigitPrefix(s)
        rest == lstrip(SubSeq(s, Len(d) + 1, Len(s)))
    IN  IF d = << >> THEN None
        ELSE IF rest = << >> THEN Some([qty |-> d, unit |-> None])
        ELSE IF lower(rest) \in UnitWords THEN Some([qty |-> d, unit |-> Some(rest)])
        ELSE None

\* the part of dateutil's parse the engine relies on: "H:MM", "H" or "H:MM"
\* followed by am/pm give <<[hour, minute]>>; any other text raises (None)
dtparse(text) ==
    LET s     == lower(strip(text))
        n     == Len(s)
        sfx   == IF n >= 2 THEN SubSeq(s, n - 1, n) ELSE << >>
        ampm  == IF sfx = <<"a","m">> THEN 0 ELSE IF sfx = <<"p","m">> THEN 1 ELSE 2
        core  == IF ampm = 2 THEN s ELSE rstrip(SubSeq(s, 1, n - 2))
        hh    == DigitPrefix(core)
        after == SubSeq(core, Len(hh) + 1, Len(core))
        hasMin == after # << >>
        mm    == IF hasMin THEN Tail(after) ELSE <<"0">>
        shape == /\ Len(hh) \in {1, 2}
                 /\ \/ ~hasMin /\ ampm # 2
                    \/ /\ hasMin /\ after[1] = ":" /\ Len(mm) = 2
                       /\ DigitPrefix(mm) = mm
        h0    == int(hh)
        m0    == int(mm)
        hour  == IF ampm = 1 /\ h0 < 12 THEN h0 + 12
                 ELSE IF ampm = 0 /\ h0 = 12 THEN 0 ELSE h0
    IN  IF shape /\ m0 < 60 /\ (IF ampm = 2 THEN h0 < 24 ELSE h0 <= 12)
        THEN Some([hour |-> hour, minute |-> m0])
        ELSE None

\* A faulty resolve_until_today: a clock time equal to now is kept for today
resolve_until_today_today(until_text, now) ==
    IF ~Truthy(until_text) THEN [ok |-> TRUE, at |-> now + timedelta_hours(2)]
    ELSE LET m == duration_match(until_text[1]) IN
         IF m # None
         THEN LET qty  == int(m[1].qty)
                  unit == lower(IF Truthy(m[1].unit) THEN m[1].unit[1]
                                ELSE <<"m","i","n","u","t","e","s">>)
              IN  [ok |-> TRUE,
                   at |-> now + (IF startswith(unit, <<"h","r">>)
                                 THEN timedelta_hours(qty)
                                 ELSE timedelta_minutes(qty))]
         ELSE LET t == dtparse(until_text[1]) IN
              IF t = None THEN [ok |-> FALSE, at |-> 0]
              ELSE LET midnight == now - (now % SecondsPerDay)
                       target   == midnight + t[1].hour * SecondsPerHour
                                            + t[1].minute * SecondsPerMinute
                   IN  [ok |-> TRUE,
                        at |-> IF target < now THEN target + SecondsPerDay
                               ELSE target]

\* resolve_until_today with the clock reading passed in; ok = FALSE stands for
\* the exception dtparse raises on text it cannot read
resolve_until_today(until_text, now) ==
    IF ~Truthy(until_text) THEN [ok |-> TRUE, at |-> now + timedelta_hours(2)]
    ELSE LET m == duration_match(until_text[1]) IN
         IF m # None
         THEN LET qty  == int(m[1].qty)
                  unit == lower(IF Truthy(m[1].unit) THEN m[1].unit[1]
                                ELSE <<"m","i","n","u","t","e","s">>)
              IN  [ok |-> TRUE,
                   at |-> now + (IF startswith(unit, <<"h","r">>)
                                 THEN timedelta_hours(qty)
                                 ELSE timedelta_minutes(qty))]
         ELSE LET t == dtparse(until_text[1]) IN
              IF t = None THEN [ok |-> FALSE, at |-> 0]
              ELSE LET midnight == now - (now % SecondsPerDay)
                       target   == midnight + t[1].hour * SecondsPerHour
                                            + t[1].minute * SecondsPerMinute
                   IN  [ok |-> TRUE,
                        at |-> IF target <= now THEN target + SecondsPerDay
                               ELSE target]

(***************************************************************************)
(* find_device                                                             *)
(***************************************************************************)
NoneId == "None"

\* the index of the first device a for-loop over devices returns on, or 0:
\* hits[i] says whether the loop's test holds of devices[i]
FirstIndex(hits) ==
    IF \E i \in 1..Len(hits) : hits[i]
    THEN CHOOSE i \in 1..Len(hits) : hits[i] /\ \A k \in 1..(i - 1) : ~hits[k]
    ELSE 0

\* A faulty find_device: the first name match of either kind wins
find_device_first_match(devices, preferred_name, env) ==
    LET pn == IF Truthy(preferred_name) THEN preferred_name ELSE env
        want == lower(strip(pn[1]))
        s == FirstIndex([i \in 1..Len(devices) |->
                 Contains(lower(strip(devices[i].name)), want)])
        a == FirstIndex([i \in 1..Len(devices) |-> devices[i].is_active])
    IN  IF devices = << >> THEN NoneId
        ELSE IF Truthy(pn) /\ s # 0 THEN devices[s].id
        ELSE IF a # 0 THEN devices[a].id
        ELSE devices[1].id

\* find_device: devices is what sp.devices() returned, preferred_name the
\* parsed hint (an Optional), env the DEFAULT_DEVICE_NAME setting (an Optional)
find_device(devices, preferred_name, env) ==
    LET pn == IF Truthy(preferred_name) THEN preferred_name ELSE env
        want == lower(strip(pn[1]))
        e == FirstIndex([i \in 1..Len(devices) |->
                 lower(strip(devices[i].name)) = want])
        s == FirstIndex([i \in 1..Len(devices) |->
                 Contains(lower(strip(devices[i].name)), want)])
        a == FirstIndex([i \in 1..Len(devices) |-> devices[i].is_active])
    IN  IF devices = << >> THEN NoneId
        ELSE IF Truthy(pn) /\ e # 0 THEN devices[e].id
        ELSE IF Truthy(pn) /\ s # 0 THEN devices[s].id
        ELSE IF a # 0 THEN devices[a].id
        ELSE devices[1].id


(***************************************************************************)
(* Bounds and inputs of the engine model                                   *)
(***************************************************************************)
\* the number of /play requests, which may run concurrently
NumReq == 2

\* the horizon, in seconds: the clock stops there, and the requests posted
\* are those whose deadline lies within it
MaxTime == 60

\* the reads a time-bounded poll loop gets to make before its window closes
MaxPolls == 2

Req == 1..NumReq

\* fill_playlist_and_wait: playlist_add_items takes at most 100 items
BatchMax == 100

\* start_loop_and_schedule_stop passes repeats = 200
Repeats == 200

\* progress_ms above which hard_start seeks back to 0
SeekThresholdMs == 2000

\* command texts a client posts; << >> is a body without "command"
Commands ==
    { << >>,
      <<"p","l","a","y">>,
      <<Quote,"a",Quote," ","t","i","l","l"," ","0">>,
      <<Quote,"a",Quote," ",Quote,"b",Quote," ","t","i","l","l"," ","1",
        " ","o","n"," ","k">>,
      <<Quote,"a",Quote," ","t","i","l","l"," ","x">> }

\* what sp.devices() may report: the listing is volatile, every read is live
DevK == [id |-> "d1", name |-> <<"K">>, is_active |-> FALSE]

DevP == [id |-> "d2", name |-> <<"P">>, is_active |-> TRUE]

\* the listings find_device may get
DeviceLists == { << >>, <<DevK, DevP>> }

\* the listings a visibility poll may get: a device may be missing from one
PollLists == DeviceLists \cup { <<DevK>>, <<DevP>> }

\* settings of DEFAULT_DEVICE_NAME
EnvSettings == {None, Some(<<"p">>)}

\* the catalog's best match for a query (items[0]["uri"])
TrackUri(query) ==
    IF query = <<"a">> THEN "spotify:track:a"
    ELSE IF query = <<"b">> THEN "spotify:track:b"
    ELSE "spotify:track:other"

\* pl_uri = f"spotify:playlist:{pid}"
PlaylistUri(pid) == <<"spotify:playlist", pid>>

\* a context left over from earlier listening
StaleContext == <<"spotify:album", 0>>

VARIABLES
    now,        \* the wall clock, in seconds
    req,        \* per request: position, locals, response, record of its calls
    playback,   \* the account's playback state at the remote service
    timer,      \* per request: its stopper thread
    fd,         \* harness of find_device (SpecDev)
    rt,         \* harness of resolve_until_today (SpecTime, SpecClock)
    pa,         \* harness of parse_cmd (SpecParse)
    fl,         \* harness of fill_playlist_and_wait (SpecFill)
    hv          \* harness of hard_start's verification block (SpecVerify)

vars == <<now, req, playback, timer, fd, rt, pa, fl, hv>>

NoResponse == [code |-> 0, kind |-> "none", at |-> "none", count |-> 0, stop_at |-> 0]

\* pc and the locals of play() and its callees, and a record of the request:
\*   lookups     catalog lookups made
\*   mutated     a mutating remote call was issued
\*   no_devices  the listing find_device got was empty
\*   seen        a visibility poll listed the selected device
\*   xfers       non-forced transfers issued
\*   hs_calls    the calls of the current hard_start run, in order
\*   reads       per hard_start run, what its verification read met:
\*               "match" (the session playlist), "mismatch" or "raised"
\*   verdicts    per hard_start run, the result it returned
\*   configured  the shuffle/repeat block ran
\*   short       the consistency poll ran out of time with the count short
\*   ahead       the earlier sessions on the device whose deadline fell inside
\*               this one when it answered
IdleReq ==
    [pc |-> "idle", titles |-> << >>, dev_name |-> None, end_at |-> 0,
     uris |-> << >>, device_id |-> NoneId,
     pid |-> 0, fill_i |-> 0, batch |-> << >>, added |-> 0, polls |-> 0,
     attempt |-> 0, response |-> NoResponse,
     lookups |-> 0, mutated |-> FALSE, no_devices |-> FALSE, seen |-> FALSE,
     xfers |-> 0, hs_calls |-> << >>, reads |-> << >>, verdicts |-> << >>,
     configured |-> FALSE, short |-> FALSE, ahead |-> {}]

NoTimer == [state |-> "none", device_id |-> NoneId, end_at |-> 0,
            slept |-> FALSE]

IdleFd == [pc |-> "off", devices |-> << >>, hint |-> None, env |-> None,
           result |-> NoneId]

IdleRt == [pc |-> "off", text |-> None, n |-> 0, unit |-> None, now |-> 0,
           result |-> [ok |-> FALSE, at |-> 0]]

IdlePa == [pc |-> "off", cmd |-> << >>, till |-> None, dev |-> None,
           order |-> "none",
           result |-> [ok |-> FALSE, titles |-> << >>, until_txt |-> None,
                       device_name |-> None]]

IdleFl == [pc |-> "off", uris |-> << >>, repeats |-> 0, i |-> 0, batch |-> << >>,
           sent |-> 0, calls |-> 0, sizes |-> << >>, in_order |-> TRUE]

IdleHv == [pc |-> "off", read |-> FALSE, context |-> StaleContext, prog |-> 0,
           item |-> FALSE, seek_raised |-> FALSE, R |-> IdleReq]

Init ==
    /\ now = 0
    /\ req = [r \in Req |-> IdleReq]
    /\ playback = [device |-> NoneId, context |-> StaleContext, is_playing |-> FALSE]
    /\ timer = [r \in Req |-> NoTimer]
    /\ fd = IdleFd
    /\ rt = IdleRt
    /\ pa = IdlePa
    /\ fl = IdleFl
    /\ hv = IdleHv

\* a request ends with an HTTP response; the locals of its calls are gone
Respond(R, code, kind) ==
    [R EXCEPT !.pc = "done",
              !.response = [code |-> code, kind |-> kind, at |-> R.pc,
                            count |-> IF code = 200 THEN Len(R.uris) ELSE 0,
                            stop_at |-> IF code = 200 THEN R.end_at ELSE 0],
              !.dev_name = None, !.fill_i = 0, !.batch = << >>, !.added = 0,
              !.polls = 0, !.short = FALSE,
              !.device_id = IF code = 200 THEN @ ELSE NoneId,
              !.pid = IF code = 200 THEN @ ELSE 0,
              !.end_at = IF code = 200 THEN @ ELSE 0]

\* the except clause of play(): any exception becomes a 500 with its message
Raise(R, kind) == Respond(R, 500, kind)

\* a mutating remote call was issued
Mutating(R) == [R EXCEPT !.mutated = TRUE]

Rest == <<now, playback, timer, fd, rt, pa, fl, hv>>

(***************************************************************************)
(* play() up to the call of start_loop_and_schedule_stop: no call here     *)
(* changes remote state, and every read is live                            *)
(***************************************************************************)
\* play() up to sp_client(): authorized says whether a cached token exists
play_begin(R, command, authorized, clock) ==
    LET p == parse_cmd(command)
        t == resolve_until_today(p.until_txt, clock)
    IN  IF command = << >> THEN Respond(R, 400, "MissingCommand")
        ELSE IF ~p.ok THEN Raise(R, "MalformedCommand")
        ELSE IF ~t.ok THEN Raise(R, "InvalidTimeExpression")
        ELSE IF ~authorized THEN Raise(R, "Unauthenticated")
        ELSE [R EXCEPT !.pc = "search", !.titles = p.titles,
                       !.dev_name = p.device_name, !.end_at = t.at]

\* the requests are numbered in the order they arrive
Play(r) ==
    /\ req[r].pc = "idle"
    /\ \A q \in 1..(r - 1) : req[q].pc # "idle"
    /\ \E command \in Commands, authorized \in BOOLEAN :
           /\ req' = [req EXCEPT ![r] = play_begin(@, command, authorized, now)]
           /\ req'[r].end_at <= MaxTime
    /\ UNCHANGED Rest

\* A faulty search_tracks: it looks every title up and raises only at the end
RECURSIVE search_tracks_late(_, _, _)
search_tracks_late(R, answers, i) ==
    IF i > Len(R.titles)
    THEN IF \E j \in 1..Len(R.titles) : answers[j] = "miss"
         THEN Raise(R, "TrackNotFound") ELSE [R EXCEPT !.pc = "find"]
    ELSE LET L == [R EXCEPT !.lookups = @ + 1] IN
         IF answers[i] = "error" THEN Raise(L, "RemoteServiceError")
         ELSE IF answers[i] = "miss" THEN search_tracks_late(L, answers, i + 1)
         ELSE search_tracks_late(
                  [L EXCEPT !.uris = Append(@, TrackUri(R.titles[i]))],
                  answers, i + 1)

\* search_tracks from title i on; answers[i] is the catalog's answer to the
\* i-th lookup: "hit", "miss" (no item) or "error" (the call raised)
RECURSIVE search_tracks(_, _, _)
search_tracks(R, answers, i) ==
    IF i > Len(R.titles) THEN [R EXCEPT !.pc = "find"]
    ELSE LET L == [R EXCEPT !.lookups = @ + 1] IN
         IF answers[i] = "error" THEN Raise(L, "RemoteServiceError")
         ELSE IF answers[i] = "miss" THEN Raise(L, "TrackNotFound")
         ELSE search_tracks([L EXCEPT !.uris = Append(@, TrackUri(R.titles[i]))],
                            answers, i + 1)

SearchTracks(r) ==
    /\ req[r].pc = "search"
    /\ \E answers \in [1..Len(req[r].titles) -> {"hit", "miss", "error"}] :
           req' = [req EXCEPT ![r] = search_tracks(@, answers, 1)]
    /\ UNCHANGED Rest

\* A faulty play(): it goes on without a device
play_select_unchecked(R, device_id) ==
    [R EXCEPT !.pc = "create", !.device_id = device_id, !.dev_name = None]

\* play() after find_device returned device_id
play_select(R, device_id) ==
    IF device_id = NoneId THEN Respond(R, 409, "NoDeviceAvailable")
    ELSE [R EXCEPT !.pc = "create", !.device_id = device_id, !.dev_name = None]

\* sp.devices() answers with a listing or raises
FindDevice(r) ==
    /\ req[r].pc = "find"
    /\ \/ \E listing \in DeviceLists, env \in EnvSettings :
              req' = [req EXCEPT ![r] =
                  play_select([@ EXCEPT !.no_devices = (listing = << >>)],
                              find_device(listing, req[r].dev_name, env))]
       \/ req' = [req EXCEPT ![r] = Raise(@, "RemoteServiceError")]
    /\ UNCHANGED Rest

(***************************************************************************)
(* create_session_playlist and fill_playlist_and_wait                      *)
(***************************************************************************)
\* the fill loop run forward to its next playlist_add_items call, or its end
RECURSIVE fill_advance(_, _, _, _)
fill_advance(i, batch, uris, repeats) ==
    IF Len(batch) >= BatchMax \/ i >= repeats \/ uris = << >>
    THEN [i |-> i, batch |-> batch]
    ELSE fill_advance(i + 1, batch \o uris, uris, repeats)

\* A faulty fill: the whole batch is sent at once
fill_chunk_whole(batch) == batch

\* what the pending playlist_add_items call sends
fill_chunk(batch) ==
    IF Len(batch) >= BatchMax THEN SubSeq(batch, 1, BatchMax) ELSE batch

\* the locals of fill_playlist_and_wait at position (i, batch)
fill_at(R, i, batch) ==
    LET a == fill_advance(i, batch, R.uris, Repeats) IN
    [R EXCEPT !.fill_i = a.i, !.batch = a.batch,
              !.pc = IF a.batch # << >> THEN "fill" ELSE "wait",
              !.polls = 0]

total_expected(uris, repeats) == Len(uris) * repeats

\* sp.current_user() and sp.user_playlist_create(): created says whether both
\* returned; pid is the id the service gave the playlist
create_session_playlist(R, created, pid) ==
    IF created THEN fill_at([Mutating(R) EXCEPT !.pid = pid], 0, << >>)
    ELSE Raise(R, "RemoteServiceError")

\* the id the service gives the playlist request r creates: one per playlist
NewPlaylistId(r) == r

CreatePlaylist(r) ==
    /\ req[r].pc = "create"
    /\ \/ req' = [req EXCEPT ![r] = create_session_playlist(@, TRUE, NewPlaylistId(r))]
       \/ req' = [req EXCEPT ![r] = create_session_playlist(@, FALSE, 0)]
    /\ UNCHANGED Rest

\* one playlist_add_items call returned
fill_added(R) ==
    LET chunk == fill_chunk(R.batch) IN
    fill_at([Mutating(R) EXCEPT !.added = @ + Len(chunk)],
            R.fill_i, SubSeq(R.batch, Len(chunk) + 1, Len(R.batch)))

Fill(r) ==
    /\ req[r].pc = "fill"
    /\ \/ req' = [req EXCEPT ![r] = fill_added(@)]
       \/ req' = [req EXCEPT ![r] = Raise(Mutating(@), "RemoteServiceError")]
    /\ UNCHANGED Rest

\* one turn of the consistency poll; total is the count the read reported
fill_wait(R, total) ==
    IF total >= total_expected(R.uris, Repeats)
    THEN [R EXCEPT !.pc = "ensure", !.polls = 0]
    ELSE [R EXCEPT !.polls = @ + 1]

\* A faulty poll: running out of time ends the request
fill_wait_over_fatal(R) == Raise(R, "RemoteServiceError")

\* the loop test fails: fill_playlist_and_wait returns, and
\* start_loop_and_schedule_stop goes on to ensure_device_active
fill_wait_over(R) == [R EXCEPT !.pc = "ensure", !.polls = 0]

\* The window (15 s) is open at the first test of the loop and has closed
\* after MaxPolls reads at the latest; that the window closed with the count
\* short is put on record until the next step of the request.
Wait(r) ==
    /\ req[r].pc = "wait"
    /\ \/ /\ req[r].polls < MaxPolls
          /\ \/ \E total \in {0, req[r].added} :
                    req' = [req EXCEPT ![r] = fill_wait(@, total)]
             \/ req' = [req EXCEPT ![r] = Raise(@, "RemoteServiceError")]
       \/ /\ req[r].polls >= 1
          /\ req' = [req EXCEPT ![r] = fill_wait_over([@ EXCEPT !.short = TRUE])]
    /\ UNCHANGED Rest

(***************************************************************************)
(* The remote transport commands                                           *)
(***************************************************************************)
remote_pause(pb, device_id) ==
    IF pb.device = device_id THEN [pb EXCEPT !.is_playing = FALSE] ELSE pb

remote_transfer(pb, device_id, force_play) ==
    [pb EXCEPT !.device = device_id,
               !.is_playing = IF force_play THEN TRUE ELSE @]

remote_start(pb, device_id, context_uri) ==
    [device |-> device_id, context |-> context_uri, is_playing |-> TRUE]

(***************************************************************************)
(* ensure_device_active                                                    *)
(***************************************************************************)
\* any(d["id"] == device_id for d in ds)
device_listed(ds, device_id) == \E i \in 1..Len(ds) : ds[i].id = device_id

\* one turn of the visibility poll over the listing ds
ensure_poll(R, ds) ==
    IF device_listed(ds, R.device_id)
    THEN [R EXCEPT !.pc = "ens_transfer"]
    ELSE [R EXCEPT !.polls = @ + 1]

\* hard_start is entered for the attempt-th time
hard_start_enter(R, attempt) ==
    [R EXCEPT !.pc = "hs_pause", !.attempt = attempt, !.hs_calls = << >>]

\* A faulty caller: it ignores what ensure_device_active returned
ensure_timeout_ignored(R) == hard_start_enter(R, 1)

\* start_loop_and_schedule_stop when ensure_device_active returned False
ensure_timeout(R) == Raise(R, "DeviceNotActive")

\* The window (8 s) is open at the first test of the loop and has closed
\* after MaxPolls reads at the latest.
Ensure(r) ==
    /\ req[r].pc = "ensure"
    /\ \/ /\ req[r].polls < MaxPolls
          /\ \/ \E ds \in PollLists :
                    req' = [req EXCEPT ![r] =
                        ensure_poll([@ EXCEPT !.short = FALSE, !.seen =
                                        device_listed(ds, req[r].device_id)], ds)]
             \/ req' = [req EXCEPT ![r] = Raise(@, "RemoteServiceError")]
       \/ /\ req[r].polls >= 1
          /\ req' = [req EXCEPT ![r] = ensure_timeout(@)]
    /\ UNCHANGED Rest

\* the non-forced transfer at the sighting returned or raised (except: pass);
\* ensure_device_active returns True and hard_start is entered
ensure_seen(R, raised) ==
    hard_start_enter([Mutating(R) EXCEPT !.xfers = @ + 1], 1)

\* a call that returned may have taken effect or been ignored by the device
EnsureTransfer(r) ==
    /\ req[r].pc = "ens_transfer"
    /\ \/ /\ req' = [req EXCEPT ![r] = ensure_seen(@, FALSE)]
          /\ \/ playback' = remote_transfer(playback, req[r].device_id, FALSE)
             \/ UNCHANGED playback
       \/ /\ req' = [req EXCEPT ![r] = ensure_seen(@, TRUE)]
          /\ UNCHANGED playback
    /\ UNCHANGED <<now, timer, fd, rt, pa, fl, hv>>

(***************************************************************************)
(* hard_start and its caller's retry                                       *)
(***************************************************************************)
\* a call of hard_start was issued
HsCall(R, op) == [Mutating(R) EXCEPT !.hs_calls = Append(@, op)]

\* A faulty caller: it gives up after the first failed hard_start
hard_start_return_noretry(R, ok) ==
    LET L == [R EXCEPT !.verdicts = Append(@, ok)] IN
    IF ok THEN [L EXCEPT !.pc = "configure"]
    ELSE Raise(L, "PlaybackStartFailed")

\* lines 273-278: what start_loop_and_schedule_stop does with hard_start's result
hard_start_return(R, ok) ==
    LET L == [R EXCEPT !.verdicts = Append(@, ok)] IN
    IF ok THEN [L EXCEPT !.pc = "configure"]
    ELSE IF R.attempt = 1 THEN hard_start_enter(L, 2)
    ELSE Raise(L, "PlaybackStartFailed")

\* A faulty hard_start: it goes from the pause straight to start_playback
hard_start_paused_skip(R, raised) == [R EXCEPT !.pc = "hs_start"]

\* A faulty hard_start: a failure of the pause ends the request
hard_start_paused_strict(R, raised) ==
    IF raised THEN Raise(R, "RemoteServiceError")
    ELSE [R EXCEPT !.pc = "hs_transfer"]

\* lines 233-236: pause_playback returned or raised (except: pass)
hard_start_paused(R, raised) == [R EXCEPT !.pc = "hs_transfer"]

HS_Pause(r) ==
    /\ req[r].pc = "hs_pause"
    /\ \/ /\ req' = [req EXCEPT ![r] =
                 hard_start_paused(HsCall(@, "pause"), FALSE)]
          /\ \/ playback' = remote_pause(playback, req[r].device_id)
             \/ UNCHANGED playback
       \/ /\ req' = [req EXCEPT ![r] =
                 hard_start_paused(HsCall(@, "pause"), TRUE)]
          /\ UNCHANGED playback
    /\ UNCHANGED <<now, timer, fd, rt, pa, fl, hv>>

\* lines 238-241: transfer_playback returned or raised (except: pass)
hard_start_transferred(R, raised) == [R EXCEPT !.pc = "hs_start"]

HS_Transfer(r) ==
    /\ req[r].pc = "hs_transfer"
    /\ \/ /\ req' = [req EXCEPT ![r] =
                 hard_start_transferred(HsCall(@, "transfer_force"), FALSE)]
          /\ \/ playback' = remote_transfer(playback, req[r].device_id, TRUE)
             \/ UNCHANGED playback
       \/ /\ req' = [req EXCEPT ![r] =
                 hard_start_transferred(HsCall(@, "transfer_force"), TRUE)]
          /\ UNCHANGED playback
    /\ UNCHANGED <<now, timer, fd, rt, pa, fl, hv>>

\* A faulty hard_start: start_playback is best effort like the calls before it
hard_start_started_swallowed(R, started) == [R EXCEPT !.pc = "hs_verify"]

\* start_playback returned (started) or raised: the exception is not caught
\* in hard_start nor in start_loop_and_schedule_stop
hard_start_started(R, started) ==
    IF started THEN [R EXCEPT !.pc = "hs_verify"]
    ELSE Raise(R, "RemoteServiceError")

\* the device may take the start, or accept it and silently keep its state
HS_Start(r) ==
    /\ req[r].pc = "hs_start"
    /\ \/ /\ req' = [req EXCEPT ![r] =
                 hard_start_started(HsCall(@, "start_playback"), TRUE)]
          /\ \/ playback' = remote_start(playback, req[r].device_id,
                                         PlaylistUri(req[r].pid))
             \/ UNCHANGED playback
       \/ /\ req' = [req EXCEPT ![r] =
                 hard_start_started(HsCall(@, "start_playback_raised"), FALSE)]
          /\ UNCHANGED playback
    /\ UNCHANGED <<now, timer, fd, rt, pa, fl, hv>>

\* A faulty check: any context passes
verify_ok_any(context, pl_uri) == context # << >>

\* ok = (ctx.get("uri") == pl_uri)
verify_ok(context, pl_uri) == context = pl_uri

\* A faulty hard_start: it seeks whenever the progress is past the threshold
seek_needed_any_item(ok, prog, item) == ok /\ prog > SeekThresholdMs

\* if ok and prog > 2000 and item
seek_needed(ok, prog, item) == ok /\ prog > SeekThresholdMs /\ item

\* lines 247-263: current_playback() returned (read) the context, progress_ms
\* and whether an item is set, or raised; seek_track returned or raised
\* (except: pass)
hard_start_verify(R, read, context, prog, item, seek_raised) ==
    LET ok == verify_ok(context, PlaylistUri(R.pid)) IN
    IF ~read THEN hard_start_return(R, FALSE)
    ELSE IF seek_needed(ok, prog, item)
    THEN hard_start_return(HsCall(R, "seek"), ok)
    ELSE hard_start_return(R, ok)

\* what a verification read of request R meets
Met(R, read, context) ==
    IF ~read THEN "raised"
    ELSE IF context = PlaylistUri(R.pid) THEN "match" ELSE "mismatch"

\* the read is issued, and what it meets is put on record
VerifyRead(R, read, context) ==
    [R EXCEPT !.hs_calls = Append(@, "current_playback"),
              !.reads = Append(@, Met(R, read, context))]

HS_Verify(r) ==
    /\ req[r].pc = "hs_verify"
    /\ \/ \E prog \in {0, SeekThresholdMs + 1000}, item \in BOOLEAN,
             seek_raised \in BOOLEAN :
              req' = [req EXCEPT ![r] =
                  hard_start_verify(VerifyRead(@, TRUE, playback.context),
                                    TRUE, playback.context, prog, item,
                                    seek_raised)]
       \/ req' = [req EXCEPT ![r] =
              hard_start_verify(VerifyRead(@, FALSE, playback.context),
                                FALSE, playback.context, 0, FALSE, FALSE)]
    /\ UNCHANGED Rest

(***************************************************************************)
(* Shuffle / repeat configuration (best effort), lines 280-295             *)
(***************************************************************************)
\* the calls the block issues: read says whether current_playback() returned
configure_calls(read, dis_shuffle, dis_repeat) ==
    <<"current_playback">>
    \o (IF read /\ ~dis_shuffle THEN <<"shuffle">> ELSE << >>)
    \o (IF read /\ ~dis_repeat THEN <<"repeat">> ELSE << >>)

\* every call of the block is best effort: the request goes on to the timer;
\* raised is the set of shuffle/repeat calls that raised (except: pass)
configure(R, read, dis_shuffle, dis_repeat, raised) ==
    [R EXCEPT !.pc = "spawn", !.hs_calls = << >>, !.mutated = TRUE,
              !.configured = Len(configure_calls(read, dis_shuffle, dis_repeat)) > 0]

Configure(r) ==
    /\ req[r].pc = "configure"
    /\ \E read \in BOOLEAN, dis_shuffle \in BOOLEAN, dis_repeat \in BOOLEAN,
          raised \in SUBSET {"shuffle", "repeat"} :
           req' = [req EXCEPT ![r] =
               configure(@, read, dis_shuffle, dis_repeat, raised)]
    /\ UNCHANGED Rest

(***************************************************************************)
(* The stop timer: threading.Thread(target=stopper, daemon=True).start()   *)
(***************************************************************************)
\* the thread object: the closure holds the request's device_id and end_at
new_stopper(R) ==
    [state |-> "new", device_id |-> R.device_id, end_at |-> R.end_at,
     slept |-> FALSE]

\* A faulty scheduler: one timer for the process, a new one replaces a pending one
Spawn_single(r) ==
    /\ req[r].pc = "spawn"
    /\ timer' = [q \in Req |->
                     IF q = r THEN new_stopper(req[r])
                     ELSE IF timer[q].state \in {"new", "sleeping", "ready"}
                     THEN NoTimer ELSE timer[q]]
    /\ req' = [req EXCEPT ![r].pc = "return"]
    /\ UNCHANGED <<now, playback, fd, rt, pa, fl, hv>>

Spawn(r) ==
    /\ req[r].pc = "spawn"
    /\ timer' = [timer EXCEPT ![r] = new_stopper(req[r])]
    /\ req' = [req EXCEPT ![r].pc = "return"]
    /\ UNCHANGED <<now, playback, fd, rt, pa, fl, hv>>

\* the requests that answered "playing" for the same device before request r
\* does, whose deadline is still ahead and earlier than r's
EarlierAhead(r) ==
    { q \in Req \ {r} :
        /\ req[q].pc = "done" /\ req[q].response.code = 200
        /\ req[q].device_id = req[r].device_id
        /\ now < req[q].end_at /\ req[q].end_at < req[r].end_at }

\* return jsonify(status="playing", ...); which earlier sessions' deadlines
\* fall inside the new session is put on record
ReturnPlaying(r) ==
    /\ req[r].pc = "return"
    /\ req' = [req EXCEPT ![r] =
               Respond([@ EXCEPT !.ahead = EarlierAhead(r)], 200, "playing")]
    /\ UNCHANGED Rest

\* secs = (end_at - now).total_seconds(); if secs > 0: time.sleep(secs)
stopper_begin(T, clock) ==
    LET secs == T.end_at - clock IN
    IF secs > 0 THEN [T EXCEPT !.state = "sleeping", !.slept = TRUE]
    ELSE [T EXCEPT !.state = "ready"]

Stopper_Start(r) ==
    /\ timer[r].state = "new"
    /\ timer' = [timer EXCEPT ![r] = stopper_begin(@, now)]
    /\ UNCHANGED <<now, req, playback, fd, rt, pa, fl, hv>>

\* A faulty stopper: its sleep may return early
stopper_awake_early(T, clock) == T.state \in {"ready", "sleeping"}

\* the thread is past its sleep: it did not sleep, or time.sleep(secs) has
\* returned, which it does once secs have passed
stopper_awake(T, clock) ==
    T.state = "ready" \/ (T.state = "sleeping" /\ clock >= T.end_at)

\* lines 302-305: pause_playback returned or raised (except: pass); the
\* thread ends
stopper_paused(T, raised) == [T EXCEPT !.state = "done"]

\* sp.pause_playback(device_id=device_id)
Stopper_Pause(r) ==
    /\ stopper_awake(timer[r], now)
    /\ \/ /\ timer' = [timer EXCEPT ![r] = stopper_paused(@, FALSE)]
          /\ \/ playback' = remote_pause(playback, timer[r].device_id)
             \/ UNCHANGED playback
       \/ /\ timer' = [timer EXCEPT ![r] = stopper_paused(@, TRUE)]
          /\ UNCHANGED playback
    /\ UNCHANGED <<now, req, fd, rt, pa, fl, hv>>

(***************************************************************************)
(* The clock                                                               *)
(***************************************************************************)
\* a minute passes
Tick ==
    /\ now + SecondsPerMinute <= MaxTime
    /\ now' = now + SecondsPerMinute
    /\ UNCHANGED <<req, playback, timer, fd, rt, pa, fl, hv>>

(***************************************************************************)
(* The engine                                                              *)
(***************************************************************************)
Request(r) ==
    \/ Play(r)
    \/ SearchTracks(r)
    \/ FindDevice(r)
    \/ CreatePlaylist(r)
    \/ Fill(r)
    \/ Wait(r)
    \/ Ensure(r)
    \/ EnsureTransfer(r)
    \/ HS_Pause(r)
    \/ HS_Transfer(r)
    \/ HS_Start(r)
    \/ HS_Verify(r)
    \/ Configure(r)
    \/ Spawn(r)
    \/ ReturnPlaying(r)

Stopper(r) ==
    \/ Stopper_Start(r)
    \/ Stopper_Pause(r)

Next ==
    \/ \E r \in Req : Request(r)
    \/ \E r \in Req : Stopper(r)
    \/ Tick

Spec == Init /\ [][Next]_vars

\* a request inside the consistency poll keeps running its loop
SpecPoll == Spec /\ \A r \in Req : WF_vars(Wait(r))

\* the process keeps running: time passes, and every stopper thread gets to run
SpecLive == Spec /\ WF_vars(Tick) /\ \A r \in Req : WF_vars(Stopper(r))


(***************************************************************************)
(* find_device on its own: listings and hints drawn from bounded sets      *)
(***************************************************************************)
\* the longest listing drawn
MaxDevices == 3

\* device names, some differing only in case or in surrounding blanks
DeviceNames == { <<"K">>, <<"k"," ">>, <<"k","x">>, <<"P">> }

DeviceIds == <<"d1", "d2", "d3", "d4">>

\* listings of n devices: the i-th has the i-th id
Listings(n) ==
    { [i \in 1..n |-> [id |-> DeviceIds[i], name |-> names[i],
                       is_active |-> active[i]]] :
          names \in [1..n -> DeviceNames], active \in [1..n -> BOOLEAN] }

\* hints as parse_cmd returns them (stripped), and no hint
HintInputs == { None, Some(<<"k">>), Some(<<"K">>), Some(<<"x">>), Some(<<"z">>) }

InitDev ==
    /\ now = 0
    /\ req = [r \in Req |-> IdleReq]
    /\ playback = [device |-> NoneId, context |-> StaleContext, is_playing |-> FALSE]
    /\ timer = [r \in Req |-> NoTimer]
    /\ rt = IdleRt
    /\ pa = IdlePa
    /\ fl = IdleFl
    /\ hv = IdleHv
    /\ \E n \in 0..MaxDevices :
       \E devices \in Listings(n), hint \in HintInputs, e \in EnvSettings :
           fd = [pc |-> "call", devices |-> devices, hint |-> hint, env |-> e,
                 result |-> NoneId]

FdCall ==
    /\ fd.pc = "call"
    /\ fd' = [fd EXCEPT !.pc = "return",
                        !.result = find_device(fd.devices, fd.hint, fd.env)]
    /\ UNCHANGED <<now, req, playback, timer, rt, pa, fl, hv>>

SpecDev == InitDev /\ [][FdCall]_vars

(***************************************************************************)
(* resolve_until_today on its own: duration expressions                    *)
(***************************************************************************)
\* the largest quantity drawn
MaxQty == 15

\* quantities as written, with the number meant
QtyInputs ==
    { q \in { [text |-> <<"0">>, n |-> 0], [text |-> <<"1">>, n |-> 1],
              [text |-> <<"2">>, n |-> 2], [text |-> <<"0","7">>, n |-> 7],
              [text |-> <<"1","5">>, n |-> 15], [text |-> <<"1","6">>, n |-> 16] } :
          q.n <= MaxQty }

MinuteWords == { <<"m","i","n">>, <<"m","i","n","s">>,
                 <<"m","i","n","u","t","e">>, <<"m","i","n","u","t","e","s">> }

HourWords == { <<"h","r">>, <<"h","o","u","r">>, <<"h","o","u","r","s">> }

\* the unit as written: a unit word, a capitalised one, or none
UnitInputs ==
    {None} \cup {Some(w) : w \in MinuteWords \cup HourWords}
           \cup {Some(<<"H","R">>), Some(<<"M","i","n">>)}

\* clock readings, in seconds
NowInputs == {0, 59, 86399}

\* the expression: the quantity, blanks or none, the unit
DurationText(q, sep, unit) ==
    q.text \o sep \o (IF unit = None THEN << >> ELSE unit[1])

InitTime ==
    /\ now = 0
    /\ req = [r \in Req |-> IdleReq]
    /\ playback = [device |-> NoneId, context |-> StaleContext, is_playing |-> FALSE]
    /\ timer = [r \in Req |-> NoTimer]
    /\ fd = IdleFd
    /\ pa = IdlePa
    /\ fl = IdleFl
    /\ hv = IdleHv
    /\ \E q \in QtyInputs, sep \in {<< >>, <<" ">>}, unit \in UnitInputs,
          clock \in NowInputs :
           rt = [pc |-> "call", text |-> Some(DurationText(q, sep, unit)),
                 n |-> q.n, unit |-> unit, now |-> clock,
                 result |-> [ok |-> FALSE, at |-> 0]]

RtCall ==
    /\ rt.pc = "call"
    /\ rt' = [rt EXCEPT !.pc = "return",
                        !.result = resolve_until_today(rt.text, rt.now)]
    /\ UNCHANGED <<now, req, playback, timer, fd, pa, fl, hv>>

SpecTime == InitTime /\ [][RtCall]_vars

(***************************************************************************)
(* resolve_until_today on its own: clock-time expressions                  *)
(***************************************************************************)
\* clock times as written, with the hour and minute of the day meant
ClockInputs ==
    { [text |-> <<"0",":","0","0">>, hour |-> 0, minute |-> 0],
      [text |-> <<"0","0",":","0","1">>, hour |-> 0, minute |-> 1],
      [text |-> <<"1","0",":","3","0">>, hour |-> 10, minute |-> 30],
      [text |-> <<"1","0",":","3","0"," ","a","m">>, hour |-> 10, minute |-> 30],
      [text |-> <<"1","0",":","3","1">>, hour |-> 10, minute |-> 31],
      [text |-> <<"1","0",":","3","0"," ","P","M">>, hour |-> 22, minute |-> 30],
      [text |-> <<"1","0",":","3","0","p","m">>, hour |-> 22, minute |-> 30],
      [text |-> <<"1","2",":","0","0"," ","a","m">>, hour |-> 0, minute |-> 0],
      [text |-> <<"1","2"," ","p","m">>, hour |-> 12, minute |-> 0],
      [text |-> <<"2","3",":","5","9">>, hour |-> 23, minute |-> 59] }

\* the second of the day at h:m:s
DayTime(h, m, sec) == h * SecondsPerHour + m * SecondsPerMinute + sec

\* clock readings, in seconds: on the minute and within it, on two days
ClockNowInputs ==
    { d * SecondsPerDay + t :
          d \in {0, 1},
          t \in { DayTime(0, 0, 0), DayTime(0, 0, 59), DayTime(10, 30, 0),
                  DayTime(10, 30, 15), DayTime(10, 31, 0), DayTime(22, 30, 0),
                  DayTime(23, 59, 0), DayTime(23, 59, 59) } }

InitClock ==
    /\ now = 0
    /\ req = [r \in Req |-> IdleReq]
    /\ playback = [device |-> NoneId, context |-> StaleContext, is_playing |-> FALSE]
    /\ timer = [r \in Req |-> NoTimer]
    /\ fd = IdleFd
    /\ pa = IdlePa
    /\ fl = IdleFl
    /\ hv = IdleHv
    /\ \E c \in ClockInputs, clock \in ClockNowInputs :
           rt = [pc |-> "call", text |-> Some(c.text),
                 hour |-> c.hour, minute |-> c.minute, now |-> clock,
                 result |-> [ok |-> FALSE, at |-> 0]]

SpecClock == InitClock /\ [][RtCall]_vars

(***************************************************************************)
(* parse_cmd on its own: titles, a till clause and an on clause            *)
(***************************************************************************)
\* the quoted titles of a command, as written
TitleInputs ==
    { <<"\"","a","\"">>,
      <<"\"","a","\""," ","\"","b"," ","-"," ","c","\"">>,
      <<"\"","a"," ","o","n"," ","b","\"">> }

\* stop expressions, as written after "till "
TillInputs ==
    { None, Some(<<"5">>), Some(<<"2"," ","h","r">>),
      Some(<<"1","0",":","3","0"," ","p","m">>) }

\* device names, as written after "on "
DevInputs == { None, Some(<<"k">>), Some(<<"m","y"," ","p","c">>) }

ClauseOrders == { "till_on", "on_till" }

TillClause(till) ==
    IF till = None THEN << >> ELSE <<" ","t","i","l","l"," ">> \o till[1]

OnClause(dev) ==
    IF dev = None THEN << >> ELSE <<" ","o","n"," ">> \o dev[1]

\* play <titles> in loop <clauses>, the clauses in the order given
CommandText(titles, till, dev, order) ==
    <<"p","l","a","y"," ">> \o titles \o <<" ","i","n"," ","l","o","o","p">>
        \o (IF order = "till_on" THEN TillClause(till) \o OnClause(dev)
            ELSE OnClause(dev) \o TillClause(till))

InitParse ==
    /\ now = 0
    /\ req = [r \in Req |-> IdleReq]
    /\ playback = [device |-> NoneId, context |-> StaleContext, is_playing |-> FALSE]
    /\ timer = [r \in Req |-> NoTimer]
    /\ fd = IdleFd
    /\ rt = IdleRt
    /\ fl = IdleFl
    /\ hv = IdleHv
    /\ \E titles \in TitleInputs, till \in TillInputs, dev \in DevInputs,
          order \in ClauseOrders :
           pa = [IdlePa EXCEPT !.pc = "call",
                               !.cmd = CommandText(titles, till, dev, order),
                               !.till = till, !.dev = dev, !.order = order]

PaCall ==
    /\ pa.pc = "call"
    /\ pa' = [pa EXCEPT !.pc = "return", !.result = parse_cmd(pa.cmd)]
    /\ UNCHANGED <<now, req, playback, timer, fd, rt, fl, hv>>

SpecParse == InitParse /\ [][PaCall]_vars

(***************************************************************************)
(* Two sessions on one device: both requests prepared, deadlines apart     *)
(***************************************************************************)
\* commands naming the same device, with deadlines one and two minutes away
SessionCommands ==
    { <<Quote,"a",Quote," ","t","i","l","l"," ","1"," ","o","n"," ","k">>,
      <<Quote,"a",Quote," ","t","i","l","l"," ","2"," ","o","n"," ","k">> }

\* search_tracks when every lookup hits
Searched(R) == search_tracks(R, [i \in 1..Len(R.titles) |-> "hit"], 1)

\* find_device over a listing of both devices, no default device name set
Selected(R) == play_select(R, find_device(<<DevK, DevP>>, R.dev_name, None))

\* the fill loop run to its end, every playlist_add_items call returning
RECURSIVE Filled(_)
Filled(R) == IF R.pc = "fill" THEN Filled(fill_added(R)) ELSE R

\* the first read of the consistency poll reports the full count
Counted(R) == fill_wait(R, R.added)

\* the first visibility poll lists the device
Sighted(R) == ensure_poll([R EXCEPT !.seen = TRUE], <<DevK, DevP>>)

\* request r at its first entry of hard_start, R being what play_begin made
\* of its command: every lookup hit, the device was found, the playlist was
\* created and filled, the count was reached, the device was sighted and the
\* transfer there was issued
Prepared(R, r) ==
    ensure_seen(
        Sighted(Counted(Filled(
            create_session_playlist(Selected(Searched(R)), TRUE,
                                    NewPlaylistId(r))))),
        FALSE)

\* a request arrives and is prepared in one step, every answer favourable
Prepare(r) ==
    /\ req[r].pc = "idle"
    /\ \E command \in SessionCommands :
           req' = [req EXCEPT ![r] =
                      Prepared(play_begin(@, command, TRUE, now), r)]
    /\ UNCHANGED Rest

\* the preparation, hard_start, the configuration and the timer of request r
Session(r) ==
    \/ Prepare(r)
    \/ HS_Pause(r)
    \/ HS_Transfer(r)
    \/ HS_Start(r)
    \/ HS_Verify(r)
    \/ Configure(r)
    \/ Spawn(r)
    \/ ReturnPlaying(r)

NextSessions ==
    \/ \E r \in Req : Session(r)
    \/ \E r \in Req : Stopper(r)
    \/ Tick

SpecSessions == Init /\ [][NextSessions]_vars

(***************************************************************************)
(* The batching loop of fill_playlist_and_wait on its own                  *)
(***************************************************************************)
\* the longest list of uris drawn
MaxUris == 3

\* lists of resolved uris: up to MaxUris of two tracks, repeats allowed
UriInputs ==
    UNION { [1..n -> {TrackUri(<<"a">>), TrackUri(<<"b">>)}] : n \in 1..MaxUris }

\* multipliers: small ones, ones that fill batches exactly or not, the default
RepeatInputs == {1, 2, 33, 34, 50, 100, 101, Repeats}

\* the k-th item of uris repeated over and over
Cycled(uris, k) == uris[((k - 1) % Len(uris)) + 1]

InitFill ==
    /\ now = 0
    /\ req = [r \in Req |-> IdleReq]
    /\ playback = [device |-> NoneId, context |-> StaleContext, is_playing |-> FALSE]
    /\ timer = [r \in Req |-> NoTimer]
    /\ fd = IdleFd
    /\ rt = IdleRt
    /\ pa = IdlePa
    /\ hv = IdleHv
    /\ \E uris \in UriInputs, repeats \in RepeatInputs :
           fl = [IdleFl EXCEPT !.pc = "call", !.uris = uris, !.repeats = repeats]

\* the loop runs to its first playlist_add_items call, or to its end
FlBegin ==
    /\ fl.pc = "call"
    /\ LET a == fill_advance(0, << >>, fl.uris, fl.repeats) IN
       fl' = [fl EXCEPT !.i = a.i, !.batch = a.batch,
                        !.pc = IF a.batch # << >> THEN "add" ELSE "return"]
    /\ UNCHANGED <<now, req, playback, timer, fd, rt, pa, hv>>

\* one playlist_add_items call: its size is put on record, and whether what
\* it sends continues the uris repeated in order
FlAdd ==
    /\ fl.pc = "add"
    /\ LET chunk == fill_chunk(fl.batch)
           a == fill_advance(fl.i, SubSeq(fl.batch, Len(chunk) + 1, Len(fl.batch)),
                             fl.uris, fl.repeats)
       IN  fl' = [fl EXCEPT
                     !.i = a.i, !.batch = a.batch,
                     !.pc = IF a.batch # << >> THEN "add" ELSE "return",
                     !.calls = @ + 1,
                     !.sizes = Append(@, Len(chunk)),
                     !.in_order = @ /\ \A k \in 1..Len(chunk) :
                                     chunk[k] = Cycled(fl.uris, fl.sent + k),
                     !.sent = @ + Len(chunk)]
    /\ UNCHANGED <<now, req, playback, timer, fd, rt, pa, hv>>

NextFill == FlBegin \/ FlAdd

SpecFill == InitFill /\ [][NextFill]_vars

(***************************************************************************)
(* The verification block of hard_start on its own                         *)
(***************************************************************************)
\* progress_ms values a read reports: none, at the threshold, around it
ProgInputs == {0, SeekThresholdMs - 1, SeekThresholdMs, SeekThresholdMs + 1,
               SeekThresholdMs + 1000}

\* contexts a read reports: a stale one, the session playlist, another playlist
ContextInputs == {StaleContext, PlaylistUri(1), PlaylistUri(2)}

\* a request about to make the verification read of its attempt-th hard start
AtVerify(attempt) ==
    [IdleReq EXCEPT !.pc = "hs_verify", !.titles = << <<"a">> >>,
                    !.uris = <<TrackUri(<<"a">>)>>, !.device_id = "d1",
                    !.pid = 1, !.attempt = attempt, !.lookups = 1,
                    !.mutated = TRUE, !.seen = TRUE, !.xfers = 1,
                    !.hs_calls = <<"pause", "transfer_force", "start_playback">>,
                    !.reads = IF attempt = 2 THEN <<"mismatch">> ELSE << >>,
                    !.verdicts = IF attempt = 2 THEN <<FALSE>> ELSE << >>]

InitVerify ==
    /\ now = 0
    /\ req = [r \in Req |-> IdleReq]
    /\ playback = [device |-> NoneId, context |-> StaleContext, is_playing |-> FALSE]
    /\ timer = [r \in Req |-> NoTimer]
    /\ fd = IdleFd
    /\ rt = IdleRt
    /\ pa = IdlePa
    /\ fl = IdleFl
    /\ \E read \in BOOLEAN, context \in ContextInputs, prog \in ProgInputs,
          item \in BOOLEAN, seek_raised \in BOOLEAN, attempt \in {1, 2} :
           hv = [pc |-> "call", read |-> read, context |-> context,
                 prog |-> prog, item |-> item, seek_raised |-> seek_raised,
                 R |-> AtVerify(attempt)]

HvCall ==
    /\ hv.pc = "call"
    /\ hv' = [hv EXCEPT !.pc = "return",
                        !.R = hard_start_verify(
                                  VerifyRead(hv.R, hv.read, hv.context),
                                  hv.read, hv.context, hv.prog, hv.item,
                                  hv.seek_raised)]
    /\ UNCHANGED <<now, req, playback, timer, fd, rt, pa, fl>>

SpecVerify == InitVerify /\ [][HvCall]_vars

(***************************************************************************)
(* Properties of the engine                                                *)
(***************************************************************************)
\* the uris of the first n titles
FoundPrefix(R, n) == [j \in 1..n |-> TrackUri(R.titles[j])]

\* C1: a request that fails on a malformed command, an invalid time
\* expression or a missing track has issued no mutating remote call; the first
\* two make no catalog lookup at all, and the lookups of the third stop at the
\* first title that has no match.
C1_NoMutationBeforeResolution ==
    \A r \in Req :
        LET R == req[r] IN
        /\ R.response.kind \in {"MalformedCommand", "InvalidTimeExpression"}
               => /\ R.pc = "done" /\ R.response.code = 500
                  /\ ~R.mutated /\ R.lookups = 0
                  /\ timer[r].state = "none"
        /\ R.response.kind = "TrackNotFound"
               => /\ R.pc = "done" /\ R.response.code = 500
                  /\ ~R.mutated /\ timer[r].state = "none"
                  /\ R.lookups \in 1..Len(R.titles)
                  /\ R.uris = FoundPrefix(R, R.lookups - 1)

\* a two-title request whose first title has no match: one lookup was made
C1_Witness ==
    \E r \in Req :
        /\ req[r].response.kind = "TrackNotFound"
        /\ Len(req[r].titles) = 2
        /\ req[r].lookups = 1

\* C2: the hard start runs at most twice per request; the second run happens
\* exactly when the verification read of the first met a context mismatch or
\* raised; when the verification of the second fails too the request fails
\* with PlaybackStartFailed, and it fails so in no other case.
C2_RetryOnce ==
    \A r \in Req :
        LET R == req[r] IN
        /\ R.attempt \in 0..2
        /\ Len(R.reads) <= R.attempt
        /\ Len(R.verdicts) = Len(R.reads)
        /\ R.attempt = 2 <=> (Len(R.reads) >= 1 /\ R.reads[1] # "match")
        /\ (Len(R.reads) = 2 /\ R.reads[2] # "match")
               => /\ R.pc = "done" /\ R.response.code = 500
                  /\ R.response.kind = "PlaybackStartFailed"
        /\ R.response.kind = "PlaybackStartFailed"
               => /\ Len(R.reads) = 2
                  /\ R.reads[1] # "match" /\ R.reads[2] # "match"

\* both verifications failed, one on a mismatch and one on an exception
C2_Witness ==
    \E r \in Req :
        /\ req[r].response.kind = "PlaybackStartFailed"
        /\ req[r].reads = <<"mismatch", "raised">>

\* C3: when start_playback raises, the request ends there in failure: the
\* run makes no verification read and no seek, no further hard start follows,
\* shuffle and repeat are not configured and no stop timer is created.
C3_StartFailurePropagates ==
    \A r \in Req :
        LET R == req[r]
            raised == \E i \in 1..Len(R.hs_calls) :
                          R.hs_calls[i] = "start_playback_raised"
        IN  /\ raised
                => /\ R.pc = "done" /\ R.response.code = 500
                   /\ R.response.kind = "RemoteServiceError"
                   /\ R.response.at = "hs_start"
                   /\ R.hs_calls = <<"pause", "transfer_force",
                                     "start_playback_raised">>
                   /\ Len(R.reads) = R.attempt - 1
                   /\ Len(R.verdicts) = R.attempt - 1
                   /\ ~R.configured
                   /\ timer[r].state = "none"
            /\ R.response.at = "hs_start" => raised

\* start_playback raised in the second hard start
C3_Witness ==
    \E r \in Req :
        /\ req[r].response.at = "hs_start"
        /\ req[r].attempt = 2

\* C4: a request reports success only if the last verification read it made
\* met its own session playlist as the playback context; success is answered
\* with 200 and nothing else is.
C4_SuccessIsVerified ==
    \A r \in Req :
        LET R == req[r] IN
        /\ (R.response.code = 200 \/ R.pc \in {"configure", "spawn", "return"})
               => /\ R.reads # << >>
                  /\ R.reads[Len(R.reads)] = "match"
                  /\ R.verdicts[Len(R.verdicts)]
        /\ R.response.code = 200 <=> R.response.kind = "playing"
        /\ R.pc = "done" => R.response.code \in {200, 400, 409, 500}

\* success on the retry, after a first verification met a stale context
C4_Witness ==
    \E r \in Req :
        /\ req[r].response.code = 200
        /\ req[r].reads = <<"mismatch", "match">>

\* C5: the hard start is entered only after a visibility poll listed the
\* selected device, and exactly one non-forced transfer was issued, at that
\* sighting; a request whose device no poll lists fails with DeviceNotActive
\* having issued no pause, forced transfer or start.
C5_VisibleBeforeStart ==
    \A r \in Req :
        LET R == req[r] IN
        /\ R.xfers \in 0..1
        /\ R.attempt >= 1 => R.seen /\ R.xfers = 1
        /\ R.pc = "ens_transfer" => R.seen /\ R.xfers = 0 /\ R.attempt = 0
        /\ ~R.seen => R.xfers = 0 /\ R.attempt = 0 /\ R.hs_calls = << >>
        /\ R.response.kind = "DeviceNotActive"
               => /\ R.pc = "done" /\ R.response.code = 500
                  /\ R.response.at = "ensure"
        /\ R.response.at = "ensure"
               => /\ ~R.seen
                  /\ R.response.kind \in {"DeviceNotActive", "RemoteServiceError"}

\* the window closed on a device no poll had listed
C5_Witness ==
    \E r \in Req :
        /\ req[r].response.kind = "DeviceNotActive"
        /\ ~req[r].seen

\* the states of a stop timer, and where it stands in the request's life
C6_TimerState ==
    \A r \in Req :
        /\ timer[r].state # "none"
               <=> (req[r].pc = "return" \/ req[r].response.code = 200)
        /\ timer[r].state # "none"
               => /\ timer[r].device_id = req[r].device_id
                  /\ timer[r].end_at = req[r].end_at
        /\ timer[r].state = "done" => now >= timer[r].end_at
        /\ timer[r].state = "sleeping" => timer[r].slept
        /\ timer[r].state \in {"none", "new", "ready"} => ~timer[r].slept

\* the steps of a stop timer
C6_TimerStep ==
    \A r \in Req :
        /\ (timer[r].state = "none" /\ timer'[r] # timer[r])
               => /\ req[r].pc = "spawn"
                  /\ timer'[r] = [state |-> "new", device_id |-> req[r].device_id,
                                  end_at |-> req[r].end_at, slept |-> FALSE]
        /\ (timer[r].state = "new" /\ timer'[r] # timer[r])
               => timer'[r] = [timer[r] EXCEPT
                      !.state = IF timer[r].end_at <= now THEN "ready"
                                ELSE "sleeping",
                      !.slept = timer[r].end_at > now]
        /\ (timer[r].state \in {"sleeping", "ready"} /\ timer'[r] # timer[r])
               => /\ timer'[r] = [timer[r] EXCEPT !.state = "done"]
                  /\ now >= timer[r].end_at
                  /\ playback' \in {playback,
                                    remote_pause(playback, timer[r].device_id)}
                  /\ playback'.is_playing => playback.is_playing
        /\ timer[r].state = "done" => timer'[r] = timer[r]

\* C6: every successful request creates one stop timer, which in the end
\* issues one pause on the request's device, never before the deadline and
\* without sleeping when the deadline has passed already; a failing request
\* creates no timer.
C6_OneTimerOnePause ==
    /\ []C6_TimerState
    /\ [][C6_TimerStep]_vars
    /\ \A r \in Req : (timer[r].state = "new") ~> (timer[r].state = "done")

\* a timer that slept to its deadline and paused
C6_Witness ==
    \E r \in Req :
        /\ timer[r].state = "done" /\ timer[r].slept
        /\ req[r].response.code = 200

\* the response and the timers wait for nothing but their own deadline
C7_Detached ==
    \A r \in Req :
        /\ req[r].pc = "return" => ENABLED ReturnPlaying(r)
        /\ timer[r].state = "new" => ENABLED Stopper_Start(r)
        /\ (timer[r].state = "ready"
               \/ (timer[r].state = "sleeping" /\ now >= timer[r].end_at))
               => ENABLED Stopper_Pause(r)

\* no step of a request, and no step of another timer, touches a timer
C7_Untouched ==
    \A r \in Req :
        timer[r].state # "none"
            => /\ timer'[r].device_id = timer[r].device_id
               /\ timer'[r].end_at = timer[r].end_at
               /\ timer'[r].state # "none"
               /\ req' # req => timer'[r] = timer[r]
               /\ \A q \in Req \ {r} : timer'[q] # timer[q] => timer'[r] = timer[r]

\* C7: the stop timers are detached and independent: the request answers
\* without waiting for its timer, nothing a later request does cancels,
\* replaces or reschedules an earlier timer, and after k successful requests
\* k pauses occur in the end, each at its own deadline on its own device.
C7_IndependentTimers ==
    /\ []C7_Detached
    /\ [][C7_Untouched]_vars
    /\ \A r \in Req : (req[r].response.code = 200) ~> (timer[r].state = "done")
    /\ \A r \in Req :
           [](timer[r].state = "done"
                  => /\ now >= req[r].end_at
                     /\ timer[r].device_id = req[r].device_id)

\* two requests have answered: the timer of one has paused, the timer of the
\* other, with a later deadline, is still asleep
C7_Witness ==
    \E r \in Req, q \in Req :
        /\ req[r].response.code = 200 /\ req[q].response.code = 200
        /\ timer[r].state = "done" /\ timer[q].state = "sleeping"
        /\ timer[r].end_at < timer[q].end_at

\* C9: when the listing is empty at selection, the request is answered 409
\* NoDeviceAvailable, which is neither the kind nor the code of
\* DeviceNotActive, before any playlist is created and before any transport
\* command.
C9_NoDevice ==
    \A r \in Req :
        LET R == req[r] IN
        /\ R.no_devices
               => /\ R.pc = "done" /\ R.response.code = 409
                  /\ R.response.kind = "NoDeviceAvailable"
                  /\ R.response.at = "find"
                  /\ ~R.mutated /\ R.pid = 0 /\ R.xfers = 0
                  /\ R.hs_calls = << >> /\ timer[r].state = "none"
        /\ R.response.kind = "NoDeviceAvailable" => R.no_devices
        /\ R.response.code = 409 => R.response.kind = "NoDeviceAvailable"
        /\ R.response.kind = "DeviceNotActive" => R.response.code = 500

\* the tracks were found and the listing was empty
C9_Witness ==
    \E r \in Req :
        /\ req[r].response.kind = "NoDeviceAvailable"
        /\ req[r].lookups = 2

(***************************************************************************)
(* Properties of find_device                                               *)
(***************************************************************************)
\* the least index in a non-empty set of indices
MinIndex(X) == CHOOSE x \in X : \A y \in X : x <= y

\* the index picked by priority: exact, substring, active, first
ByPriority(E, S, A) ==
    IF E # {} THEN MinIndex(E)
    ELSE IF S # {} THEN MinIndex(S)
    ELSE IF A # {} THEN MinIndex(A)
    ELSE 1

\* the name asked for: the hint, or the configured default when there is none
Wanted == IF Truthy(fd.hint) THEN fd.hint ELSE fd.env

ActiveAt == { i \in 1..Len(fd.devices) : fd.devices[i].is_active }

\* C8, as stated: with a hint and a non-empty listing the result is the first
\* device whose name equals the hint case-insensitively, else the first whose
\* name contains it case-insensitively, else the first active one, else the
\* first listed.
C8_AsStated ==
    (fd.pc = "return" /\ fd.devices # << >> /\ Truthy(fd.hint))
        => LET want == lower(fd.hint[1])
               E == { i \in 1..Len(fd.devices) : lower(fd.devices[i].name) = want }
               S == { i \in 1..Len(fd.devices) :
                          Contains(lower(fd.devices[i].name), want) }
           IN  fd.result = fd.devices[ByPriority(E, S, ActiveAt)].id

\* C8: the result is a function of the listing and the name asked for (the
\* hint, or the configured default when there is no hint): names and hint are
\* compared case-insensitively after trimming surrounding whitespace; the
\* first exact match wins, else the first substring match, else the first
\* active device, else the first listed; an empty listing gives no device.
C8_Selection ==
    fd.pc = "return"
        => IF fd.devices = << >> THEN fd.result = NoneId
           ELSE LET want == lower(strip(Wanted[1]))
                    E == { i \in 1..Len(fd.devices) : Truthy(Wanted) /\
                               lower(strip(fd.devices[i].name)) = want }
                    S == { i \in 1..Len(fd.devices) : Truthy(Wanted) /\
                               Contains(lower(strip(fd.devices[i].name)), want) }
                IN  fd.result = fd.devices[ByPriority(E, S, ActiveAt)].id

\* an exact match listed after a substring match and after an active device
C8_Witness ==
    /\ fd.pc = "return" /\ Truthy(fd.hint) /\ Len(fd.devices) = 3
    /\ fd.devices[1].is_active
    /\ lower(strip(fd.devices[1].name)) # lower(fd.hint[1])
    /\ ~Contains(lower(fd.devices[1].name), lower(fd.hint[1]))
    /\ Contains(lower(fd.devices[2].name), lower(fd.hint[1]))
    /\ lower(strip(fd.devices[2].name)) # lower(fd.hint[1])
    /\ lower(strip(fd.devices[3].name)) = lower(fd.hint[1])
    /\ fd.result = fd.devices[3].id

(***************************************************************************)
(* Properties of resolve_until_today                                       *)
(***************************************************************************)
\* C10: for a quantity n with a minute word or no unit the result is now + n
\* minutes, and with an hour word (hr, hour, hours) it is now + n hours.
C10_Durations ==
    rt.pc = "return"
        => /\ rt.result.ok
           /\ rt.result.at = rt.now +
                  (IF Truthy(rt.unit) /\ lower(rt.unit[1]) \in HourWords
                   THEN rt.n * SecondsPerHour ELSE rt.n * SecondsPerMinute)

\* C11: every deadline resolve_until_today returns is strictly after the now
\* of that resolution, a duration with quantity 0 included.
C11_StrictlyAfterNow ==
    (rt.pc = "return" /\ rt.result.ok) => rt.result.at > rt.now

\* the start of the day of a clock reading
Midnight(clock) == clock - (clock % SecondsPerDay)

\* C12: for a clock time h:m the deadline is today at h:m:00 when that is
\* strictly after now, and one day later otherwise; a clock time equal to the
\* current hour and minute resolves to tomorrow, never to now or the past.
C12_ClockTime ==
    rt.pc = "return"
        => LET today == Midnight(rt.now) + DayTime(rt.hour, rt.minute, 0) IN
           /\ rt.result.ok
           /\ rt.result.at = IF today > rt.now THEN today
                             ELSE today + SecondsPerDay
           /\ rt.result.at > rt.now

\* the clock time asked for is this very second: the deadline is tomorrow
C12_Witness ==
    /\ rt.pc = "return"
    /\ rt.now = Midnight(rt.now) + DayTime(rt.hour, rt.minute, 0)
    /\ rt.result.at = rt.now + SecondsPerDay

\* C13: for a command of quoted titles, an optional till clause and an
\* optional on clause in either order, parse_cmd returns the stop expression
\* and the device hint as written, whatever the other clause and the order.
C13_ClausesIndependent ==
    pa.pc = "return"
        => /\ pa.result.ok
           /\ pa.result.until_txt = pa.till
           /\ pa.result.device_name = pa.dev

\* the positions of a request whose next remote call is best effort
BestEffortAt == {"ens_transfer", "hs_pause", "hs_transfer", "configure"}

\* no request ends at a best-effort call, nor at a verification read that met
\* its playlist
C14_NoFailureThere ==
    \A r \in Req :
        req[r].pc = "done"
            => /\ req[r].response.at \notin BestEffortAt \cup {"spawn"}
               /\ req[r].response.at = "return" => req[r].response.code = 200
               /\ req[r].response.at = "hs_verify"
                      => req[r].reads[Len(req[r].reads)] # "match"

\* a best-effort call takes the request, or the timer, to the same next
\* position whether it returned or raised
C14_SameNextStep ==
    \A r \in Req :
        /\ (req[r].pc = "ens_transfer" /\ req'[r] # req[r])
               => req'[r].pc = "hs_pause"
        /\ (req[r].pc = "hs_pause" /\ req'[r] # req[r])
               => req'[r].pc = "hs_transfer"
        /\ (req[r].pc = "hs_transfer" /\ req'[r] # req[r])
               => req'[r].pc = "hs_start"
        /\ (req[r].pc = "hs_verify" /\ req'[r] # req[r]
                /\ req'[r].reads[Len(req'[r].reads)] = "match")
               => req'[r].pc = "configure"
        /\ (req[r].pc = "configure" /\ req'[r] # req[r])
               => req'[r].pc = "spawn"
        /\ (timer[r].state \in {"sleeping", "ready"} /\ timer'[r] # timer[r])
               => timer'[r].state = "done"

\* C14: the best-effort calls (pause before start, forced transfer,
\* non-forced transfer at the sighting, seek, the shuffle/repeat block, the
\* timer's pause) never turn a request into a failure and never raise out of
\* the timer: whether they return or raise, what follows is the same.
C14_BestEffort ==
    /\ []C14_NoFailureThere
    /\ [][C14_SameNextStep]_vars

\* the only request posted was answered 200 and its timer has ended, while
\* the device still plays: the timer's pause had no effect
C14_Witness ==
    \E r \in Req :
        /\ \A q \in Req \ {r} : req[q].pc = "idle"
        /\ req[r].response.code = 200
        /\ timer[r].state = "done"
        /\ playback.is_playing /\ playback.device = timer[r].device_id

\* the positions from the creation of the session playlist through the
\* verification read of a hard start
Orchestration ==
    {"create", "fill", "wait", "ensure", "ens_transfer",
     "hs_pause", "hs_transfer", "hs_start", "hs_verify"}

\* C15: of two requests running concurrently at most one is between the
\* creation of its session playlist and the verification of its hard start.
C15_MutualExclusion ==
    \A r \in Req, q \in Req :
        (req[r].pc \in Orchestration /\ req[q].pc \in Orchestration) => r = q

(***************************************************************************)
(* Properties of two sessions on one device                                *)
(***************************************************************************)
\* request R answered "playing"
Playing(R) == R.pc = "done" /\ R.response.code = 200

\* the session of request R is what the device plays
SessionOn(R) ==
    /\ playback.device = R.device_id
    /\ playback.context = PlaylistUri(R.pid)
    /\ playback.is_playing

\* r answered "playing" first, for the same device, and its deadline fell after
\* q's answer and before q's deadline
C20_Overlap(r, q) ==
    /\ Playing(req[r]) /\ Playing(req[q])
    /\ r \in req[q].ahead

\* C20: when two successful requests share a device and the earlier deadline
\* falls after the later session's start and before its deadline, the later
\* session is not paused before its own deadline: once it plays, it still
\* plays after every step that ends before that deadline.
C20_LaterSessionKept ==
    [][\A r \in Req, q \in Req :
          (C20_Overlap(r, q) /\ SessionOn(req[q]) /\ now' < req[q].end_at)
              => SessionOn(req[q])']_vars

(***************************************************************************)
(* Properties of the call order inside hard_start                          *)
(***************************************************************************)
\* the calls of a hard_start run that goes all the way
HardStartOrder ==
    <<"pause", "transfer_force", "start_playback", "current_playback", "seek">>

IsPrefix(s, t) == Len(s) <= Len(t) /\ s = SubSeq(t, 1, Len(s))

\* the calls request R has issued in its current hard_start run are in order
C19_InOrder(R) ==
    /\ \/ IsPrefix(R.hs_calls, HardStartOrder)
       \/ R.hs_calls = <<"pause", "transfer_force", "start_playback_raised">>
    /\ R.pc = "hs_pause" => R.hs_calls = << >>
    /\ R.pc = "hs_transfer" => R.hs_calls = <<"pause">>
    /\ R.pc = "hs_start" => R.hs_calls = <<"pause", "transfer_force">>
    /\ R.pc = "hs_verify" =>
           R.hs_calls = <<"pause", "transfer_force", "start_playback">>
    /\ R.pc \in {"hs_pause", "hs_transfer", "hs_start", "hs_verify"} =>
           R.device_id # NoneId

\* a step of request r inside hard_start keeps the device id, and what it
\* does to the playback it does on that device
C19_SameDevice(r) ==
    (req[r].pc \in {"hs_pause", "hs_transfer", "hs_start", "hs_verify"}
         /\ req'[r] # req[r]) =>
        /\ req'[r].pc # "done" => req'[r].device_id = req[r].device_id
        /\ playback' # playback => playback'.device = req[r].device_id
        /\ playback' \in {playback,
                          remote_pause(playback, req[r].device_id),
                          remote_transfer(playback, req[r].device_id, TRUE),
                          remote_start(playback, req[r].device_id,
                                       PlaylistUri(req[r].pid))}

\* C19: in every hard-start attempt the calls come in the order pause,
\* forced transfer, start_playback, playback read, optional seek, all on the
\* selected device; start_playback never comes before the pause and the
\* transfer were attempted, and the read only after start_playback returned.
C19_CallOrder ==
    /\ [](\A r \in Req : C19_InOrder(req[r]))
    /\ [][\A r \in Req : C19_SameDevice(r)]_vars

\* a hard start that went all the way, seek included
C19_Witness ==
    \E r \in Req :
        /\ req[r].pc = "configure"
        /\ req[r].hs_calls = HardStartOrder
        /\ playback.device = req[r].device_id

(***************************************************************************)
(* Properties of the consistency poll                                      *)
(***************************************************************************)
\* what one step of request r in the poll may do
C18_PollStep(r) ==
    (req[r].pc = "wait" /\ req'[r] # req[r]) =>
        /\ req'[r].pc \in {"wait", "ensure", "done"}
        \* another turn: one more read of the window's MaxPolls is used up
        /\ req'[r].pc = "wait" =>
               req'[r].polls = req[r].polls + 1 /\ req'[r].polls <= MaxPolls
        \* the window has closed: the only way on is the next stage
        /\ req[r].polls = MaxPolls => req'[r].pc = "ensure"
        \* on to the visibility poll, nothing answered, nothing else touched
        /\ req'[r].pc = "ensure" =>
               /\ req'[r].response = NoResponse
               /\ req'[r] = [req[r] EXCEPT !.pc = "ensure", !.polls = 0,
                                           !.short = req'[r].short]
               /\ ~req'[r].short => req[r].polls < MaxPolls
        \* only a read that raised ends the request here
        /\ req'[r].pc = "done" =>
               /\ req[r].polls < MaxPolls
               /\ req'[r].response.code = 500
               /\ req'[r].response.kind = "RemoteServiceError"

\* C18: the consistency poll always ends: when a read reports the expected
\* count or when its window has closed; when it ends with the count still
\* short the request has not failed and is at the device-visibility stage.
C18_PollTerminates ==
    /\ [][\A r \in Req : C18_PollStep(r)]_vars
    /\ [](\A r \in Req : req[r].short =>
             req[r].pc = "ensure" /\ req[r].response = NoResponse)
    /\ \A r \in Req : (req[r].pc = "wait") ~> (req[r].pc # "wait")

\* the window closed with the count short, and the request went on
C18_Witness ==
    \E r \in Req :
        /\ req[r].short
        /\ req[r].pc = "ensure"
        /\ req[r].added > 0

(***************************************************************************)
(* Properties of the batching loop                                         *)
(***************************************************************************)
\* C17: the batches sent, in call order, make up the uris repeated r times in
\* order; every batch has at most 100 items, every batch but the last
\* exactly 100, and no batch is empty.
C17_Batches ==
    /\ fl.in_order
    /\ fl.sent <= total_expected(fl.uris, fl.repeats)
    /\ \A k \in 1..Len(fl.sizes) :
           /\ fl.sizes[k] \in 1..BatchMax
           /\ k < Len(fl.sizes) => fl.sizes[k] = BatchMax
    /\ fl.pc = "add" => \A k \in 1..Len(fl.sizes) : fl.sizes[k] = BatchMax
    /\ fl.pc = "return" => fl.sent = total_expected(fl.uris, fl.repeats)

\* 3 uris 34 times over: a full batch and a last one of 2
C17_Witness ==
    /\ fl.pc = "return"
    /\ fl.sizes = <<BatchMax, 2>>
    /\ Len(fl.uris) = 3

(***************************************************************************)
(* Properties of the verification block of hard_start                      *)
(***************************************************************************)
\* the number of seeks among the calls of the run
Seeks(R) == Cardinality({ i \in 1..Len(R.hs_calls) : R.hs_calls[i] = "seek" })

\* the run ended with verification succeeded
Verified(R) == R.pc = "configure" /\ R.verdicts[Len(R.verdicts)]

\* C16, as stated: a seek is issued if and only if the verification
\* succeeded and the progress reported exceeds 2 seconds, at most once, and
\* whether it raises or not the run's result is success.
C16_AsStated ==
    hv.pc = "return"
        => LET matched == hv.read /\ hv.context = PlaylistUri(hv.R.pid) IN
           /\ Seeks(hv.R) = IF matched /\ hv.prog > SeekThresholdMs THEN 1 ELSE 0
           /\ matched <=> Verified(hv.R)

\* C16: a seek is issued if and only if the verification succeeded, the
\* progress reported exceeds 2000 ms and the read reports a current item; it
\* is issued at most once in the run, and whether it raises or not the run's
\* result is success.
C16_SeekIff ==
    hv.pc = "return"
        => LET matched == hv.read /\ hv.context = PlaylistUri(hv.R.pid) IN
           /\ Seeks(hv.R) = IF matched /\ hv.prog > SeekThresholdMs /\ hv.item
                             THEN 1 ELSE 0
           /\ matched <=> Verified(hv.R)

\* a seek was issued and raised, and the run's result is success
C16_Witness ==
    /\ hv.pc = "return" /\ hv.seek_raised
    /\ Seeks(hv.R) = 1
    /\ Verified(hv.R)

=============================================================================
